---- MODULE Spec2Model ----
(***************************************************************************)
(* Model of RemoteController.base_connection.Connection: the polling loop  *)
(* (_run), the send queue (send_command / send_binary_payload), the frame   *)
(* decoding (_handle_data) and cancellation (stop), together with the one   *)
(* concrete transport of the repository, WiredConnection.                   *)
(*                                                                          *)
(* Bytes objects are sequences of naturals in 0..255.  Python's None and    *)
(* exceptions are strings.  The asyncio task behind _run is modelled by its *)
(* position (task) and by a pending cancellation request.                   *)
(***************************************************************************)
EXTENDS Integers, Sequences, FiniteSets, TLC

\* ------------------------------------------------------------------ bounds
MaxEnq == 3

\* --------------------------------------------------------------- constants
CommandMagic == 61103
BinaryMagic == 61102
CommandFrameLen == 7

None == "None"

\* ------------------------------------------------------------------- state
VARIABLES
    cls,              \* self.__class__.__name__ of the concrete transport
    hasQueue,         \* whether the attribute self._queue has been assigned
    queue,            \* self._queue: list of bytes
    qids,             \* history: identity of each queued frame, parallel to queue
    info,             \* history: one record per frame ever enqueued
    task,             \* position of self._task: created, sleeping, cancelled, failed
    cancelRequested,  \* self._task.cancel() was requested and not yet delivered
    failure,          \* the ConnectionDataFetchException the task ended with
    sent,             \* history: every frame handed to _send_data, in order
    stopCalled,       \* history: stop() has been called
    slept,            \* history: an asyncio.sleep of the loop has completed
    last              \* history: the latest operation, its inputs and what it did

vars == <<cls, hasQueue, queue, qids, info, task, cancelRequested, failure,
          sent, stopCalled, slept, last>>

\* ------------------------------------------------------------------ inputs
\* The two concrete kinds of transport: the repository's WiredConnection,
\* whose constructor never assigns _queue and whose _check / _send_data
\* return None, and a transport that assigns the declared _queue attribute
\* to an empty list in its constructor and implements both operations.
Classes == {"WiredConnection", "QueuedConnection"}

\* A throttle is a Python float holding a float32 value; it is written as
\* the two 16-bit halves <<hi, lo>> of its float32 bit pattern.
\* 0.75 is 0x3F400000.
ThrottleInputs == {<<16192, 0>>}
\* command arguments; 256 does not fit the unsigned byte of the format
CommandInputs == {5, 256}
PayloadInputs == {<<1, 2>>}

\* ------------------------------------------------------------------- codec
\* struct.pack(">H", v)
PackH(v) == <<v \div 256, v % 256>>

\* the pattern is a NaN: exponent 255 and a non-zero mantissa
IsNaN(t) == (t[1] \div 128) % 256 = 255 /\ (t[1] % 128 # 0 \/ t[2] # 0)

\* the pattern is a signalling NaN: a NaN whose top mantissa bit is 0
IsSignallingNaN(t) == IsNaN(t) /\ (t[1] \div 64) % 2 = 0

\* The C conversion between double and float that the "f" format performs
\* when packing and when unpacking turns a signalling NaN into the quiet NaN
\* with the same payload and leaves every other value alone.
Quiet(t) == IF IsSignallingNaN(t) THEN <<t[1] + 64, t[2]>> ELSE t

\* variant: the format "<f", least significant byte first
PackFLittleEndian(t) ==
    LET q == Quiet(t) IN <<q[2] % 256, q[2] \div 256, q[1] % 256, q[1] \div 256>>

\* struct.pack(">f", t)
PackF(t) ==
    LET q == Quiet(t) IN <<q[1] \div 256, q[1] % 256, q[2] \div 256, q[2] % 256>>

\* struct.unpack(">H", b)
UnpackH(b) == b[1] * 256 + b[2]

\* struct.unpack(">f", b)
UnpackF(b) == Quiet(<<b[1] * 256 + b[2], b[3] * 256 + b[4]>>)

\* struct.pack(">H B f", 0xEEAF, command, throttle)
EncodeCommand(command, throttle) == PackH(CommandMagic) \o <<command>> \o PackF(throttle)

\* struct.pack(">H", 0xEEAE) + binary_payload
EncodeBinary(binary_payload) == PackH(BinaryMagic) \o binary_payload

\* variant: the slice keeps the whole buffer
SliceFromWhole(b, a) == b

\* payload[a:] of a bytes object (a counted from 0)
SliceFrom(b, a) == IF a >= Len(b) THEN <<>> ELSE SubSeq(b, a + 1, Len(b))

\* payload[:a]
SliceTo(b, a) == IF a >= Len(b) THEN b ELSE SubSeq(b, 1, a)

\* ------------------------------------------------------- engine operations
\* The engine as a value, so that an operation called from inside a callback
\* and the same operation called from outside the loop are one definition.
\* events is the trace of the tick in progress, exc the exception in flight.
Cur ==
    [hasQueue |-> hasQueue, queue |-> queue, qids |-> qids, info |-> info,
     task |-> task, cancelRequested |-> cancelRequested, sent |-> sent,
     stopCalled |-> stopCalled, events |-> <<>>, exc |-> None]

Ev(name, k, data, id) == [ev |-> name, k |-> k, data |-> data, id |-> id]

Log(e, name, k, data, id) == [e EXCEPT !.events = Append(@, Ev(name, k, data, id))]

Raise(e, x) == [e EXCEPT !.exc = x]

Range(f) == {f[i] : i \in DOMAIN f}

\* variant: a frame sent immediately is inserted behind the head of a
\* non-empty list instead of in front of it
PutAfterHead(l, x, send_immediately) ==
    IF send_immediately /\ l # <<>> THEN <<Head(l), x>> \o Tail(l)
    ELSE IF send_immediately THEN <<x>> \o l ELSE Append(l, x)

\* variant: send_immediately is ignored, every frame is appended
PutAppendOnly(l, x, send_immediately) == Append(l, x)

\* self._queue.insert(0, payload) if send_immediately else self._queue.append(payload)
Put(l, x, send_immediately) == IF send_immediately THEN <<x>> \o l ELSE Append(l, x)

\* variant: send_immediately hands the frame to _send_data at once
EnqueueSendsNow(e, payload, send_immediately) ==
    IF ~e.hasQueue
    THEN Raise(e, "AttributeError")
    ELSE LET id == Len(e.info) + 1
             noted == [e EXCEPT !.info = Append(@, [frame |-> payload,
                                                    imm |-> send_immediately,
                                                    behind |-> Range(e.qids)])] IN
         IF send_immediately
         THEN Log(Log([noted EXCEPT !.sent = Append(@, [id |-> id, frame |-> payload])],
                      "enqueue", None, payload, id),
                  "_send_data", "True", payload, id)
         ELSE Log([noted EXCEPT !.queue = Append(@, payload), !.qids = Append(@, id)],
                  "enqueue", None, payload, id)

\* The last statement of send_command and of send_binary_payload.  Reading
\* self._queue raises AttributeError when the attribute was never assigned.
Enqueue(e, payload, send_immediately) ==
    IF ~e.hasQueue
    THEN Raise(e, "AttributeError")
    ELSE LET id == Len(e.info) + 1 IN
         Log([e EXCEPT !.queue = Put(@, payload, send_immediately),
                       !.qids = Put(@, id, send_immediately),
                       !.info = Append(@, [frame |-> payload,
                                           imm |-> send_immediately,
                                           behind |-> Range(e.qids)])],
             "enqueue", None, payload, id)

\* send_command: struct.pack raises struct.error when command is not a ubyte
SendCommandOn(e, command, throttle, send_immediately) ==
    IF command \notin 0..255
    THEN Raise(e, "struct.error")
    ELSE Enqueue(e, EncodeCommand(command, throttle), send_immediately)

\* send_binary_payload
SendBinaryOn(e, binary_payload, send_immediately) ==
    Enqueue(e, EncodeBinary(binary_payload), send_immediately)

TaskDone(t) == t \in {"cancelled", "failed"}

\* variant: the cancellation request is lost
TaskCancelLost(e) == e

\* asyncio.Task.cancel(): nothing on a finished task, otherwise the request
\* is recorded and delivered when the task next resumes from its await.
TaskCancel(e) == IF TaskDone(e.task) THEN e ELSE [e EXCEPT !.cancelRequested = TRUE]

\* variant: stop() drops the task after cancelling it and does not test it
StopOnUnguarded(e) ==
    IF e.stopCalled THEN Raise(e, "AttributeError")
    ELSE [TaskCancel(e) EXCEPT !.stopCalled = TRUE]

\* stop(): a Task object is always truthy, so cancel() is always called
StopOn(e) == [TaskCancel(e) EXCEPT !.stopCalled = TRUE]

\* ------------------------------------------------------------- callbacks
\* What a user callback does when invoked: return, call stop(), enqueue a
\* reply (send_command(5, 0.75, imm) or send_binary_payload(b"\x01\x02", imm)),
\* or raise.
CbScript(do, imm) == [do |-> do, imm |-> imm]

CallbackScripts ==
    {CbScript("return", FALSE), CbScript("stop", FALSE), CbScript("raise", FALSE)}
    \cup {CbScript(d, i) : d \in {"send_command", "send_binary_payload"}, i \in BOOLEAN}

\* the scripts a callback may follow (enqueuing stays within MaxEnq frames)
AllowedScripts(e) ==
    {cb \in CallbackScripts :
        cb.do \in {"send_command", "send_binary_payload"} => Len(e.info) < MaxEnq}

RunCallback(e, cb) ==
    CASE cb.do = "return" -> e
      [] cb.do = "stop" -> StopOn(Log(e, "stop", None, <<>>, 0))
      [] cb.do = "raise" -> Raise(Log(e, "raise", "CallbackError", <<>>, 0), "CallbackError")
      [] cb.do = "send_command" -> SendCommandOn(e, 5, <<16192, 0>>, cb.imm)
      [] cb.do = "send_binary_payload" -> SendBinaryOn(e, <<1, 2>>, cb.imm)

\* ---------------------------------------------------------------- the tick
\* variant: unpack_from, which accepts a longer buffer
StructFitsAtLeast(b, size) == Len(b) >= size

\* struct.unpack(format, b) raises struct.error unless b has exactly the
\* size of the format
StructFits(b, size) == Len(b) = size

\* variant: every header that is not the command magic is taken as binary
MatchDefaultBinary(header) == IF header = CommandMagic THEN "command" ELSE "binary"

\* the match statement of _handle_data: which case the header selects
Match(header) ==
    IF header = CommandMagic THEN "command"
    ELSE IF header = BinaryMagic THEN "binary"
    ELSE "none"

\* variant: the call is wrapped in try / except Exception: pass
InvokeIsolated(e, name, args) ==
    LET called == Log(e, name, None, args, 0) IN
    {[RunCallback(called, cb) EXCEPT !.exc = IF cb.do = "raise" THEN None ELSE @] :
        cb \in AllowedScripts(called)}

\* self.on_command_payload(...) / self.on_binary_payload(...): the engine
\* after the call, one for each thing the callback may do
Invoke(e, name, args) ==
    LET called == Log(e, name, None, args, 0) IN
    {RunCallback(called, cb) : cb \in AllowedScripts(called)}

\* _handle_data(payload): the set of engines it may leave
HandleData(e, payload) ==
    IF ~StructFits(SliceTo(payload, 2), 2)
    THEN {Raise(e, "struct.error")}
    ELSE LET case == Match(UnpackH(SliceTo(payload, 2))) IN
         IF case = "command"
         THEN IF ~StructFits(payload, CommandFrameLen)
              THEN {Raise(e, "struct.error")}
              ELSE Invoke(e, "on_command_payload",
                          <<payload[3]>> \o UnpackF(SliceFrom(payload, 3)))
         ELSE IF case = "binary"
         THEN Invoke(e, "on_binary_payload", SliceFrom(payload, 2))
         ELSE {e}

\* variant: the head is read with [0] and removed only when _send_data
\* returned a true value, so a frame that was not sent is tried again
PeekAndSend(e, out) ==
    IF ~e.hasQueue
    THEN Raise(e, "AttributeError")
    ELSE IF e.queue = <<>>
    THEN Raise(e, "IndexError")
    ELSE LET kept == Log([e EXCEPT !.sent = Append(@, [id |-> Head(e.qids),
                                                       frame |-> Head(e.queue)])],
                         "_send_data", out, Head(e.queue), Head(e.qids))
             popped == [kept EXCEPT !.queue = Tail(@), !.qids = Tail(@)] IN
         IF out \in {"True", None} THEN popped
         ELSE IF out = "False" THEN kept ELSE Raise(kept, out)

\* variant: pop() without index, which takes the last frame of the queue
PopLastAndSend(e, out) ==
    IF ~e.hasQueue
    THEN Raise(e, "AttributeError")
    ELSE IF e.queue = <<>>
    THEN Raise(e, "IndexError")
    ELSE LET n == Len(e.queue)
             popped == Log([e EXCEPT !.queue = SubSeq(@, 1, n - 1),
                                     !.qids = SubSeq(@, 1, n - 1),
                                     !.sent = Append(@, [id |-> e.qids[n],
                                                         frame |-> e.queue[n]])],
                           "_send_data", out, e.queue[n], e.qids[n]) IN
         IF out \in {"True", "False", None} THEN popped ELSE Raise(popped, out)

\* self._send_data(self._queue.pop(0)); out is what _send_data does
PopAndSend(e, out) ==
    IF ~e.hasQueue
    THEN Raise(e, "AttributeError")
    ELSE IF e.queue = <<>>
    THEN Raise(e, "IndexError")
    ELSE LET popped == Log([e EXCEPT !.queue = Tail(@), !.qids = Tail(@),
                                     !.sent = Append(@, [id |-> Head(e.qids),
                                                         frame |-> Head(e.queue)])],
                           "_send_data", out, Head(e.queue), Head(e.qids)) IN
         IF out \in {"True", "False", None} THEN popped ELSE Raise(popped, out)

\* result of _check(): None, a bytes object, or an exception
ProbeNone == [k |-> "none", data |-> <<>>]
ProbeBytes(b) == [k |-> "bytes", data |-> b]
ProbeRaise == [k |-> "raise", data |-> <<>>]

\* truth value of the result of _check(): None and b"" are false
Truthy(res) == res.k = "bytes" /\ Len(res.data) > 0

\* variant: the queue is worked after inbound data was handled
BranchBoth(res) ==
    IF Truthy(res) THEN <<"_handle_data", "_send_data">> ELSE <<"_send_data">>

\* the conditional expression of _run: which of the two calls the tick makes
Branch(res) == IF Truthy(res) THEN <<"_handle_data">> ELSE <<"_send_data">>

RunStep(e, name, res, out) ==
    IF e.exc # None THEN {e}
    ELSE IF name = "_handle_data" THEN HandleData(e, res.data)
    ELSE {PopAndSend(e, out)}

RECURSIVE RunSteps(_, _, _, _)
RunSteps(es, steps, res, out) ==
    IF steps = <<>> THEN es
    ELSE RunSteps(UNION {RunStep(e, Head(steps), res, out) : e \in es},
                  Tail(steps), res, out)

\* self._check()
Check(e, res) ==
    LET probed == Log(e, "_check", res.k, res.data, 0) IN
    IF res.k = "raise" THEN Raise(probed, "OSError") ELSE probed

\* the body of one loop iteration after the sleep: the set of engines it
\* may leave when the probe returns res and _send_data, if called, does out
TickBody(e, res, out) == RunSteps({Check(e, res)}, Branch(res), res, out)

\* raise ConnectionDataFetchException(e, self.__class__.__name__ + " connection ...")
NoFailure == [cause |-> None, name |-> None]
WrapException(x, name) == [cause |-> x, name |-> name]

\* variant: CancelledError is handled as every other exception
OnCancelledErrorWrapped(name) == WrapException("CancelledError", name)

\* except asyncio.CancelledError: pass - the failure the cancelled task ends
\* with
OnCancelledError(name) == NoFailure

\* variant: the exception is swallowed and the loop goes on
TaskAfterSwallow(x) == "sleeping"

\* except asyncio.CancelledError: pass / except Exception as e: raise ...
TaskAfter(x) == IF x = None THEN "sleeping" ELSE "failed"

\* ----------------------------------------------------------------- inputs
\* frames a probe may return: empty, too short for a header, a command
\* frame, command magic with a wrong length (short and long), binary frames
\* with and without payload, and two unknown magics
ReceivedFrames ==
    {<<>>, <<1>>,
     EncodeCommand(5, <<16192, 0>>),
     <<238, 175, 5>>, <<238, 175, 5, 0, 0, 0, 0, 0>>,
     EncodeBinary(<<>>), EncodeBinary(<<1, 2>>),
     <<0, 0>>, <<238, 173, 9>>}

\* WiredConnection._check and ._send_data are "pass": both return None
ProbeResults(c) ==
    IF c = "WiredConnection" THEN {ProbeNone}
    ELSE {ProbeNone, ProbeRaise} \cup {ProbeBytes(b) : b \in ReceivedFrames}

\* what _send_data does: return True, False or None, or raise.  Whatever a
\* probe, a send or a callback raises is an instance of Exception, which is
\* what the second except clause of _run catches.
SendOutcomes(c) ==
    IF c = "WiredConnection" THEN {None}
    ELSE {"True", "False", "PacketSizeTooBigException"}

\* The record of an operation: for a tick the queue length it started with,
\* its trace and the exception that ended it; for a call its encoded frame,
\* whether the arguments were valid, and what it raised; for stop() the
\* number (0 or 1) telling whether stop() had been called before.  args are
\* the command and throttle, or the payload, a send_* call was given.
Op(name, n, qlen, events, frame, imm, valid, exc) ==
    [op |-> name, n |-> n, qlen |-> qlen, events |-> events, frame |-> frame,
     imm |-> imm, valid |-> valid, exc |-> exc, args |-> <<>>]

PlainOp(name) == Op(name, 0, 0, <<>>, <<>>, FALSE, TRUE, None)

WithArgs(o, args) == [o EXCEPT !.args = args]

\* ------------------------------------------------------------------- Init
\* Connection.__init__: the attributes are stored and the task is created;
\* _queue is only declared in the class body.
Init ==
    /\ cls \in Classes
    /\ hasQueue = (cls # "WiredConnection")
    /\ queue = <<>>
    /\ qids = <<>>
    /\ info = <<>>
    /\ task = "created"
    /\ cancelRequested = FALSE
    /\ failure = NoFailure
    /\ sent = <<>>
    /\ stopCalled = FALSE
    /\ slept = FALSE
    /\ last = PlainOp("__init__")

\* the engine fields an operation may have changed
Install(e) ==
    /\ hasQueue' = e.hasQueue
    /\ queue' = e.queue
    /\ qids' = e.qids
    /\ info' = e.info
    /\ cancelRequested' = e.cancelRequested
    /\ sent' = e.sent
    /\ stopCalled' = e.stopCalled

\* ---------------------------------------------------------------- actions
\* variant: the body of the iteration comes before the sleep
LoopStepsBodyFirst == <<"body", "sleep">>

\* while True: await asyncio.sleep(self.interval), then the body
LoopSteps == <<"sleep", "body">>

\* what the task has done when it first suspends in asyncio.sleep: the
\* steps of the loop that come before the sleep
BeforeFirstSleep(e, res, out) ==
    IF LoopSteps[1] = "sleep" THEN {e} ELSE TickBody(e, res, out)

\* The task's first step: _run enters the try block and the loop and
\* suspends in its first asyncio.sleep(self.interval).
Start ==
    /\ task = "created"
    /\ ~cancelRequested
    /\ \E res \in ProbeResults(cls), out \in SendOutcomes(cls) :
       \E e \in BeforeFirstSleep(Cur, res, out) :
          /\ Install(e)
          /\ task' = TaskAfter(e.exc)
          /\ failure' = IF e.exc = None THEN failure ELSE WrapException(e.exc, cls)
          /\ last' = Op("start", 0, Len(queue), e.events, <<>>, FALSE, TRUE, e.exc)
    /\ UNCHANGED <<cls, slept>>

\* The sleep completes and one iteration of the loop runs up to the next
\* sleep, or up to the exception that ends the task.
Tick(res, out) ==
    /\ task = "sleeping"
    /\ ~cancelRequested
    /\ \E e \in TickBody(Cur, res, out) :
       /\ Install(e)
       /\ task' = TaskAfter(e.exc)
       /\ failure' = IF e.exc = None THEN failure ELSE WrapException(e.exc, cls)
       /\ last' = Op("tick", 0, Len(queue), e.events, <<>>, FALSE, TRUE, e.exc)
    /\ slept' = TRUE
    /\ UNCHANGED cls

\* a tick whose probe returns a true value
TickReceive ==
    \E res \in {r \in ProbeResults(cls) : Truthy(r)} : Tick(res, "True")

\* a tick whose probe returns None or b""
TickSend ==
    \E res \in {r \in ProbeResults(cls) : ~Truthy(r) /\ r.k # "raise"},
       out \in SendOutcomes(cls) :
        Tick(res, out)

\* a tick whose probe raises
TickProbeFails ==
    \E res \in {r \in ProbeResults(cls) : r.k = "raise"} : Tick(res, "True")

\* The pending cancellation is delivered: CancelledError is thrown into the
\* coroutine at its await (caught by "except asyncio.CancelledError: pass"),
\* or into a coroutine that has not started yet.
Cancelled ==
    /\ ~TaskDone(task)
    /\ cancelRequested
    /\ task' = "cancelled"
    /\ cancelRequested' = FALSE
    /\ failure' = IF task = "created" THEN failure ELSE OnCancelledError(cls)
    /\ last' = PlainOp("cancelled")
    /\ UNCHANGED <<cls, hasQueue, queue, qids, info, sent, stopCalled, slept>>

\* send_command called from outside the loop
SendCommand ==
    \E command \in CommandInputs, throttle \in ThrottleInputs, imm \in BOOLEAN :
        /\ Len(info) < MaxEnq
        /\ LET e == SendCommandOn(Cur, command, throttle, imm) IN
           /\ Install(e)
           /\ last' = WithArgs(Op("send_command", 0, Len(queue), e.events,
                                  IF command \in 0..255
                                  THEN EncodeCommand(command, throttle) ELSE <<>>,
                                  imm, command \in 0..255, e.exc),
                               <<command>> \o throttle)
        /\ UNCHANGED <<cls, task, failure, slept>>

\* send_binary_payload called from outside the loop
SendBinaryPayload ==
    \E payload \in PayloadInputs, imm \in BOOLEAN :
        /\ Len(info) < MaxEnq
        /\ LET e == SendBinaryOn(Cur, payload, imm) IN
           /\ Install(e)
           /\ last' = WithArgs(Op("send_binary_payload", 0, Len(queue), e.events,
                                  EncodeBinary(payload), imm, TRUE, e.exc),
                               payload)
        /\ UNCHANGED <<cls, task, failure, slept>>

\* stop() called from outside the loop
Stop ==
    /\ LET e == StopOn(Cur) IN
       /\ Install(e)
       /\ last' = Op("stop", IF stopCalled THEN 1 ELSE 0, Len(queue), e.events, <<>>,
                     FALSE, TRUE, e.exc)
    /\ UNCHANGED <<cls, task, failure, slept>>

Next ==
    \/ Start
    \/ TickReceive
    \/ TickSend
    \/ TickProbeFails
    \/ Cancelled
    \/ SendCommand
    \/ SendBinaryPayload
    \/ Stop

Spec == Init /\ [][Next]_vars

\* ------------------------------------------------- two engines on one link
\* frames one engine may enqueue in a behaviour of the link
CodecFrames == 1

\* commands: both ends and the middle of the unsigned byte
CodecCommands == {0, 5, 128, 255}

\* throttles: 0.0, -0.0, 0.75, -1.0, the smallest denormal, the largest
\* finite value, +Inf, -Inf, two quiet NaNs (0x7FC00000, 0xFFC00001) and
\* three signalling NaNs (0x7F800001, 0x7FA00000, 0xFF800001)
CodecThrottles ==
    {<<0, 0>>, <<32768, 0>>, <<16192, 0>>, <<49024, 0>>, <<0, 1>>, <<32639, 65535>>,
     <<32640, 0>>, <<65408, 0>>, <<32704, 0>>, <<65472, 1>>,
     <<32640, 1>>, <<32672, 0>>, <<65408, 1>>}

\* payloads: empty, one zero byte, bytes that look like the two magics, and
\* five bytes after which the frame is as long as a command frame
CodecPayloads ==
    {<<>>, <<0>>, <<1, 2>>, <<238, 175>>, <<238, 174, 255>>, <<5, 63, 64, 0, 0>>}

\* The engine at the other end of the link: another instance, asleep in its
\* loop, with its own empty queue.
Peer ==
    [hasQueue |-> TRUE, queue |-> <<>>, qids |-> <<>>, info |-> <<>>,
     task |-> "sleeping", cancelRequested |-> FALSE, sent |-> <<>>,
     stopCalled |-> FALSE, events |-> <<>>, exc |-> None]

\* the callbacks of the peer return without calling anything
CallbacksReturned(e) ==
    \A i \in DOMAIN e.events :
        e.events[i].ev \in {"_check", "on_command_payload", "on_binary_payload"}

CodecInit ==
    /\ Init
    /\ cls = "QueuedConnection"

CodecSendCommand ==
    \E command \in CodecCommands, throttle \in CodecThrottles, imm \in BOOLEAN :
        /\ Len(info) < CodecFrames
        /\ LET e == SendCommandOn(Cur, command, throttle, imm) IN
           /\ Install(e)
           /\ last' = WithArgs(Op("send_command", 0, Len(queue), e.events,
                                  EncodeCommand(command, throttle), imm, TRUE, e.exc),
                               <<command>> \o throttle)
        /\ UNCHANGED <<cls, task, failure, slept>>

CodecSendBinary ==
    \E payload \in CodecPayloads, imm \in BOOLEAN :
        /\ Len(info) < CodecFrames
        /\ LET e == SendBinaryOn(Cur, payload, imm) IN
           /\ Install(e)
           /\ last' = WithArgs(Op("send_binary_payload", 0, Len(queue), e.events,
                                  EncodeBinary(payload), imm, TRUE, e.exc),
                               payload)
        /\ UNCHANGED <<cls, task, failure, slept>>

\* A tick of the engine hands the frame just enqueued, at the head of its
\* queue, to _send_data, and the probe of the peer returns that frame in the
\* peer's next tick.  The record keeps the arguments of the send_* call and
\* the trace of the peer's tick.
CodecDeliver ==
    /\ task = "sleeping"
    /\ ~cancelRequested
    /\ queue # <<>>
    /\ last.op \in {"send_command", "send_binary_payload"}
    /\ last.exc = None
    /\ Head(queue) = last.frame
    /\ \E e \in TickBody(Cur, ProbeNone, "True") :
       \E p \in {x \in TickBody(Peer, ProbeBytes(e.sent[Len(e.sent)].frame), "True") :
                   CallbacksReturned(x)} :
          /\ Install(e)
          /\ task' = TaskAfter(e.exc)
          /\ failure' = IF e.exc = None THEN failure ELSE WrapException(e.exc, cls)
          /\ last' = WithArgs(Op(IF last.op = "send_command"
                                 THEN "deliver_command" ELSE "deliver_binary",
                                 0, Len(queue), p.events, last.frame, last.imm, TRUE, p.exc),
                              last.args)
    /\ slept' = TRUE
    /\ UNCHANGED cls

CodecNext ==
    \/ Start
    \/ CodecSendCommand
    \/ CodecSendBinary
    \/ CodecDeliver

SpecCodec == CodecInit /\ [][CodecNext]_vars

\* ================================================================= claims
\* --------------------------------------------------- reading a tick trace
IsTick == last.op = "tick"

Has(evs, name) == \E i \in DOMAIN evs : evs[i].ev = name

Count(evs, name) == Cardinality({i \in DOMAIN evs : evs[i].ev = name})

Callbacks == {"on_command_payload", "on_binary_payload"}

Dispatched(evs) == \E i \in DOMAIN evs : evs[i].ev \in Callbacks

\* the probe of the tick returned a true value / returned None or b""
ProbedData(evs) ==
    \E i \in DOMAIN evs : evs[i].ev = "_check" /\ evs[i].k = "bytes" /\ evs[i].data # <<>>

ProbedNothing(evs) ==
    \E i \in DOMAIN evs : evs[i].ev = "_check" /\ evs[i].k # "raise"
                          /\ ~(evs[i].k = "bytes" /\ evs[i].data # <<>>)

\* the bytes the probe of the tick returned
ProbedBytes(evs) == evs[CHOOSE i \in DOMAIN evs : evs[i].ev = "_check"].data

Running == ~TaskDone(task) /\ ~cancelRequested

\* C1 - Half-duplex exclusivity: a tick never both dispatches inbound data
\* and calls _send_data; when the probe reports data _send_data is not
\* called in that tick, and when _send_data is called no callback is.
Thm_C1_HalfDuplex ==
    IsTick =>
        /\ ProbedData(last.events) => ~Has(last.events, "_send_data")
        /\ Has(last.events, "_send_data") => ~Dispatched(last.events)
        /\ Count(last.events, "_send_data") + Count(last.events, "on_command_payload")
             + Count(last.events, "on_binary_payload") <= 1

\* a tick that dispatched inbound data while frames were waiting in the queue
Wit_C1_ReceiveWithBacklog ==
    /\ IsTick
    /\ last.qlen > 0
    /\ Dispatched(last.events)
    /\ Len(queue) >= last.qlen

\* C2 - Idle tick: a tick whose probe reports nothing and whose queue is
\* empty calls no _send_data, produces no failure and leaves the engine
\* running.
CEx_C2_IdleTickHarmless ==
    (IsTick /\ hasQueue /\ ProbedNothing(last.events) /\ last.qlen = 0) =>
        /\ ~Has(last.events, "_send_data")
        /\ last.exc = None
        /\ failure = NoFailure
        /\ Running

\* ---------------------------------------------------- reading the history
SentIds == {sent[i].id : i \in DOMAIN sent}

\* position of frame id in the order of hand-over to _send_data
SentPos(id) == CHOOSE i \in DOMAIN sent : sent[i].id = id

\* frame f was handed to _send_data, and before frame g was
SentBefore(f, g) == f \in SentIds /\ SentPos(f) < SentPos(g)

\* C3 - Queue ordering: a frame enqueued with send_immediately is handed to
\* _send_data before every frame that was queued when it was enqueued, and
\* frames enqueued without it are handed over in the order of their
\* enqueuing, whichever of send_command and send_binary_payload made them.
Thm_C3_QueueOrdering ==
    \A g \in SentIds : \A f \in DOMAIN info :
        /\ (info[f].imm /\ g \in info[f].behind) => SentBefore(f, g)
        /\ (f < g /\ ~info[f].imm /\ ~info[g].imm) => SentBefore(f, g)

\* A and B enqueued, then C with send_immediately, sent as C, A, B; the three
\* frames come from both send_command and send_binary_payload
Wit_C3_PriorityThenFifo ==
    /\ Len(sent) = 3
    /\ <<sent[1].id, sent[2].id, sent[3].id>> = <<3, 1, 2>>
    /\ info[3].imm /\ ~info[1].imm /\ ~info[2].imm
    /\ info[3].behind = {1, 2}
    /\ {Match(UnpackH(info[i].frame)) : i \in 1..3} = {"command", "binary"}

\* C4 - No tick after stop(): once stop() has been called, no probe, no
\* _send_data and no callback ever happens again and no queued or later
\* enqueued frame is transmitted; inside a tick nothing of the kind follows
\* a stop() made by a callback.
QuietAfterStop(evs) ==
    \A i, j \in DOMAIN evs :
        (i < j /\ evs[i].ev = "stop") =>
            evs[j].ev \notin (Callbacks \cup {"_check", "_send_data"})

Thm_C4_NoTickAfterStop ==
    [][/\ stopCalled => (sent' = sent /\ last'.op \notin {"tick", "start"})
       /\ QuietAfterStop(last'.events)]_vars

\* stop() was called on an engine that had already sent a frame and had
\* more queued, the loop has ended, and a frame was enqueued after that
Wit_C4_StoppedWithBacklog ==
    /\ stopCalled
    /\ task = "cancelled"
    /\ sent # <<>>
    /\ Len(queue) >= 2
    /\ last.op = "send_command" /\ last.exc = None

\* C5 - stop() is idempotent and never raises: in every state of the task
\* the call raises nothing, and a call after an earlier one changes nothing
\* of the engine.
Thm_C5_StopIdempotent ==
    [][last'.op = "stop" =>
        /\ last'.exc = None
        /\ StopOn(StopOn(Cur)) = StopOn(Cur)
        /\ stopCalled => /\ task' = task
                        /\ cancelRequested' = cancelRequested
                        /\ failure' = failure
                        /\ queue' = queue
                        /\ sent' = sent]_vars

\* a second stop() on an engine whose loop has already been cancelled
Wit_C5_SecondStop ==
    /\ last.op = "stop"
    /\ last.n = 1
    /\ task = "cancelled"

\* C6 - Failure is fatal: an exception raised by the probe, by decoding or
\* by _send_data ends the task with one ConnectionDataFetchException holding
\* that exception and the name of the concrete class; afterwards the task
\* stays failed with the same exception and no probe, send or callback
\* happens.
ProbeRaised(evs) == \E i \in DOMAIN evs : evs[i].ev = "_check" /\ evs[i].k = "raise"

SendRaised(evs) ==
    \E i \in DOMAIN evs : evs[i].ev = "_send_data" /\ evs[i].k = "PacketSizeTooBigException"

DecodeRaised(evs) ==
    /\ ProbedData(evs)
    /\ LET b == ProbedBytes(evs) IN
       \/ Len(b) < 2
       \/ (b[1] = 238 /\ b[2] = 175 /\ Len(b) # 7)

FailedWith(x) == task = "failed" /\ failure = [cause |-> x, name |-> cls]

Thm_C6_FailureIsFatal ==
    [][/\ (last'.op = "tick" /\ ProbeRaised(last'.events)) => FailedWith("OSError")'
       /\ (last'.op = "tick" /\ SendRaised(last'.events)) =>
              FailedWith("PacketSizeTooBigException")'
       /\ (last'.op = "tick" /\ DecodeRaised(last'.events)) => FailedWith("struct.error")'
       /\ task = "failed" => /\ task' = "failed"
                             /\ failure' = failure
                             /\ sent' = sent
                             /\ last'.op # "tick"]_vars

\* _send_data raised the packet-too-large exception while more frames were
\* queued, and an operation was made after the failure
Wit_C6_SendFailed ==
    /\ FailedWith("PacketSizeTooBigException")
    /\ queue # <<>>
    /\ last.op # "tick"

\* C7 - Malformed detection: a received frame with the command magic and a
\* total length other than 7 never reaches the command callback, and the
\* tick ends in an error that fails the task instead of being dropped.
HasCommandMagic(b) == Len(b) >= 2 /\ UnpackH(SubSeq(b, 1, 2)) = CommandMagic

Thm_C7_MalformedReported ==
    (IsTick /\ ProbedData(last.events) /\ HasCommandMagic(ProbedBytes(last.events))
       /\ Len(ProbedBytes(last.events)) # 7) =>
        /\ ~Dispatched(last.events)
        /\ last.exc = "struct.error"
        /\ FailedWith("struct.error")

\* the probe returned a command-magic frame one byte too long
Wit_C7_LongCommandFrame ==
    /\ IsTick
    /\ ProbedData(last.events)
    /\ HasCommandMagic(ProbedBytes(last.events))
    /\ Len(ProbedBytes(last.events)) = 8
    /\ task = "failed"

\* C8 - Unknown-magic drop: a received frame whose first two bytes are
\* neither 0xEEAF nor 0xEEAE invokes no callback and raises nothing; the
\* engine stays running, asleep before its next tick.
HasUnknownMagic(b) ==
    Len(b) >= 2 /\ UnpackH(SubSeq(b, 1, 2)) \notin {CommandMagic, BinaryMagic}

Thm_C8_UnknownMagicDropped ==
    (IsTick /\ ProbedData(last.events) /\ HasUnknownMagic(ProbedBytes(last.events))) =>
        /\ ~Dispatched(last.events)
        /\ Len(last.events) = 1
        /\ last.exc = None
        /\ failure = NoFailure
        /\ Running
        /\ task = "sleeping"
        /\ Len(queue) = last.qlen

\* an unknown-magic frame arrived after an earlier tick had sent a frame,
\* with frames still queued
Wit_C8_UnknownFrameSeen ==
    /\ IsTick
    /\ sent # <<>>
    /\ ProbedData(last.events)
    /\ HasUnknownMagic(ProbedBytes(last.events))
    /\ queue # <<>>

\* C9 - send_command and send_binary_payload never raise for valid inputs:
\* after a call with a command in 0..255 or any payload, in any state of the
\* engine, nothing was raised and the encoded frame is in the queue, at the
\* head with send_immediately and at the tail without.
CEx_C9_SendNeverRaises ==
    (last.op \in {"send_command", "send_binary_payload"} /\ last.valid) =>
        /\ last.exc = None
        /\ queue # <<>>
        /\ (IF last.imm THEN Head(queue) ELSE queue[Len(queue)]) = last.frame

\* C10 - Re-entrant enqueue: a frame enqueued by a callback during a tick is
\* not handed to _send_data in that tick and is still in the queue, which has
\* grown by exactly that frame, when the tick ends.
Thm_C10_ReentrantEnqueue ==
    IsTick =>
        \A i \in DOMAIN last.events :
            last.events[i].ev = "enqueue" =>
                /\ ~Has(last.events, "_send_data")
                /\ last.events[i].id \notin SentIds
                /\ last.events[i].id \in Range(qids)
                /\ Len(queue) = last.qlen + 1
                /\ last.events[i].data \in Range(queue)

\* a callback enqueued a reply with send_immediately in front of a backlog
Wit_C10_ReplyAtHead ==
    /\ IsTick
    /\ last.qlen > 0
    /\ \E i \in DOMAIN last.events :
          /\ last.events[i].ev = "enqueue"
          /\ Head(qids) = last.events[i].id
          /\ info[last.events[i].id].imm

\* the sequence q is the sequence r with exactly one element added, at the
\* head or at the tail
GrownByOne(q, r) ==
    /\ Len(q) = Len(r) + 1
    /\ \/ Tail(q) = r
       \/ SubSeq(q, 1, Len(r)) = r

\* C11 - Frame effect of sending: a send_command or send_binary_payload call
\* with valid arguments adds exactly one frame to the queue, keeps the frames
\* already queued in their order, calls no probe, no _send_data and no
\* callback, and leaves the state of the task alone.
CEx_C11_SendOnlyGrowsQueue ==
    [][(last'.op \in {"send_command", "send_binary_payload"} /\ last'.valid) =>
        /\ GrownByOne(queue', queue)
        /\ GrownByOne(qids', qids)
        /\ last'.events = <<Ev("enqueue", None, last'.frame, Len(info'))>>
        /\ sent' = sent
        /\ task' = task
        /\ cancelRequested' = cancelRequested
        /\ failure' = failure]_vars

\* C12 - FIFO among same-priority entries, as stated: of two frames enqueued
\* with the same send_immediately, the one enqueued earlier is handed to
\* _send_data before the one enqueued later.
CEx_C12_FifoAmongSamePriority ==
    \A g \in SentIds : \A f \in DOMAIN info :
        (f < g /\ info[f].imm = info[g].imm) => SentBefore(f, g)

\* C12, amended - frames enqueued without send_immediately are handed to
\* _send_data in the order of their enqueuing; of two frames enqueued with
\* send_immediately the later one goes first when the earlier one was still
\* queued at the time, and the earlier one goes first only when it had
\* left the queue before the later one was enqueued.
Thm_C12_FifoExceptQueuedImmediates ==
    \A f, g \in DOMAIN info :
        (f < g /\ info[f].imm = info[g].imm) =>
            /\ (~info[f].imm /\ g \in SentIds) => SentBefore(f, g)
            /\ (info[f].imm /\ f \in info[g].behind /\ f \in SentIds) => SentBefore(g, f)
            /\ (info[f].imm /\ f \notin info[g].behind /\ g \in SentIds) => SentBefore(f, g)

\* two frames enqueued with send_immediately while both were queued, handed
\* to _send_data later one first, and a third immediate frame that was
\* enqueued after the first had left and so followed it
Wit_C12_ImmediatesReversed ==
    /\ Len(info) = 3
    /\ \A i \in 1..3 : info[i].imm
    /\ 1 \in info[2].behind
    /\ info[3].behind = {}
    /\ Len(sent) = 3
    /\ <<sent[1].id, sent[2].id, sent[3].id>> = <<2, 1, 3>>

HasBinaryMagic(b) == Len(b) >= 2 /\ UnpackH(SubSeq(b, 1, 2)) = BinaryMagic

\* the arguments of the calls of callback name in a tick trace
CallArgs(evs, name) == {evs[i].data : i \in {j \in DOMAIN evs : evs[j].ev = name}}

\* C13 - Dispatch: a tick whose probe returns a 7-byte frame with the
\* command magic calls on_command_payload exactly once, with the command
\* byte and the throttle whose encoding are the bytes of the frame, and does
\* not call on_binary_payload; a tick whose probe returns a frame with the
\* binary magic calls on_binary_payload exactly once, with exactly the bytes
\* after the magic, and does not call on_command_payload.
Thm_C13_Dispatch ==
    (IsTick /\ ProbedData(last.events)) =>
        LET b == ProbedBytes(last.events) IN
        /\ (HasCommandMagic(b) /\ Len(b) = CommandFrameLen) =>
              /\ Count(last.events, "on_command_payload") = 1
              /\ Count(last.events, "on_binary_payload") = 0
              /\ \A d \in CallArgs(last.events, "on_command_payload") :
                    /\ Len(d) = 3
                    /\ d[1] = b[3]
                    /\ PackF(<<d[2], d[3]>>) = SubSeq(b, 4, 7)
        /\ HasBinaryMagic(b) =>
              /\ Count(last.events, "on_binary_payload") = 1
              /\ Count(last.events, "on_command_payload") = 0
              /\ \A d \in CallArgs(last.events, "on_binary_payload") :
                    PackH(BinaryMagic) \o d = b

\* a binary frame without payload arrived while frames were queued and
\* on_binary_payload was called with the empty bytes
Wit_C13_EmptyBinaryDispatched ==
    /\ IsTick
    /\ ProbedData(last.events)
    /\ ProbedBytes(last.events) = PackH(BinaryMagic)
    /\ CallArgs(last.events, "on_binary_payload") = {<<>>}
    /\ last.qlen > 0

\* the _send_data calls of a tick trace, as <<frame id, frame>>
SendCalls(evs) ==
    {<<evs[i].id, evs[i].data>> : i \in {j \in DOMAIN evs : evs[j].ev = "_send_data"}}

\* C14 - One head frame per tick: a tick whose probe reports nothing on a
\* non-empty queue calls _send_data exactly once, with the frame that was at
\* the head of the queue, and leaves the queue without that head; no tick
\* calls _send_data more than once.
Thm_C14_OneHeadFramePerTick ==
    [][last'.op = "tick" =>
        /\ Count(last'.events, "_send_data") <= 1
        /\ Len(sent') <= Len(sent) + 1
        /\ (ProbedNothing(last'.events) /\ hasQueue /\ queue # <<>>) =>
              /\ Count(last'.events, "_send_data") = 1
              /\ SendCalls(last'.events) = {<<Head(qids), Head(queue)>>}
              /\ queue' = Tail(queue)
              /\ qids' = Tail(qids)
              /\ Len(queue') = Len(queue) - 1
              /\ sent' = Append(sent, [id |-> Head(qids), frame |-> Head(queue)])]_vars

\* a tick sent the head of a queue of three frames, which was the frame
\* enqueued last, with send_immediately; the two others stay queued
Wit_C14_HeadOfBacklogSent ==
    /\ IsTick
    /\ last.qlen = 3
    /\ Count(last.events, "_send_data") = 1
    /\ Len(queue) = 2
    /\ Len(sent) = 1
    /\ sent[1].id = 3

\* the sequence holds no element twice
Distinct(q) == \A i, j \in DOMAIN q : q[i] = q[j] => i = j

\* C18 - At-most-once hand-off: no frame is handed to _send_data twice; a
\* frame handed to _send_data has left the queue, whether the call returned
\* true, returned false or raised, and never enters it again; every enqueued
\* frame is either queued, once, or was handed over, once.
Thm_C18_AtMostOnceHandOff ==
    /\ Distinct(sent)
    /\ Distinct([i \in DOMAIN sent |-> sent[i].id])
    /\ Distinct(qids)
    /\ SentIds \cap Range(qids) = {}
    /\ SentIds \cup Range(qids) = DOMAIN info
    /\ Len(queue) = Len(qids)
    /\ \A i \in DOMAIN qids : queue[i] = info[qids[i]].frame
    /\ \A i \in DOMAIN sent : sent[i].frame = info[sent[i].id].frame
    /\ IsTick => \A c \in SendCalls(last.events) : c[1] \in SentIds /\ c[1] \notin Range(qids)

\* two frames were handed over, _send_data returned false for the second,
\* which has left the queue; another frame is queued and the loop goes on
Wit_C18_UnsentFrameDropped ==
    /\ IsTick
    /\ Len(sent) = 2
    /\ \E i \in DOMAIN last.events :
          /\ last.events[i].ev = "_send_data"
          /\ last.events[i].k = "False"
          /\ last.events[i].id = sent[2].id
          /\ last.events[i].id \notin Range(qids)
    /\ queue # <<>>
    /\ task = "sleeping"

\* a callback raised during the tick
CallbackRaised(evs) == \E i \in DOMAIN evs : evs[i].ev = "raise"

\* C20 - A failing callback is fatal: an exception raised by
\* on_command_payload or on_binary_payload ends the tick at once and the task
\* with a ConnectionDataFetchException holding that exception and the name of
\* the concrete class, as for a failing probe or send; afterwards the task
\* stays failed and no tick, no _send_data and no callback happens.
Thm_C20_CallbackFailureIsFatal ==
    [][/\ (last'.op = "tick" /\ CallbackRaised(last'.events)) =>
              /\ FailedWith("CallbackError")'
              /\ last'.events[Len(last'.events)].ev = "raise"
              /\ last'.events[Len(last'.events) - 1].ev \in Callbacks
              /\ sent' = sent
       /\ FailedWith("CallbackError") =>
              /\ FailedWith("CallbackError")'
              /\ last'.op \notin {"tick", "start"}
              /\ sent' = sent
              /\ ~Dispatched(last'.events)
              /\ ~Has(last'.events, "_check")
              /\ ~Has(last'.events, "_send_data")]_vars

\* a callback raised while a frame was queued; a frame enqueued after
\* the failure waits with it in the queue of the dead loop
Wit_C20_CallbackKilledLoop ==
    /\ FailedWith("CallbackError")
    /\ last.op = "send_binary_payload" /\ last.exc = None
    /\ Len(queue) >= 2
    /\ sent = <<>>

\* the loop has ended, or will at its next await, because of stop()
Cancelling == cancelRequested \/ task = "cancelled"

\* C15 - Silent, terminal cancellation: the constructed engine is running; a
\* stop() on a running engine leaves it no longer running and produces no
\* failure, and the cancelled loop ends without one; an engine that is not
\* running is never running again, whatever is called, and a cancelled
\* engine stays cancelled, without a tick.
Thm_C15_SilentTerminalCancel ==
    /\ Running
    /\ [][/\ (last'.op = "stop" /\ Running) =>
                /\ cancelRequested'
                /\ ~Running'
                /\ failure' = NoFailure
                /\ last'.exc = None
          /\ last'.op = "cancelled" =>
                /\ task' = "cancelled"
                /\ failure' = NoFailure
          /\ Cancelling =>
                /\ Cancelling'
                /\ failure' = NoFailure
                /\ last'.op \notin {"tick", "start"}
          /\ ~Running => ~Running']_vars

\* stop() ended a loop that had sent a frame, silently, and a frame enqueued
\* afterwards left the engine cancelled
Wit_C15_CancelledSilently ==
    /\ task = "cancelled"
    /\ failure = NoFailure
    /\ stopCalled
    /\ sent # <<>>
    /\ last.op = "send_binary_payload" /\ last.exc = None

\* the operation probed, called _send_data or called a callback
Worked(evs) == Has(evs, "_check") \/ Has(evs, "_send_data") \/ Dispatched(evs)

\* C16 - First tick after one interval: construction creates the task of
\* the loop; a probe, a _send_data call or a callback happens only in a tick,
\* which begins with a completed sleep, and none happens before the first
\* sleep has completed; an engine whose loop was cancelled before the first
\* sleep completed never probes and never sends.
Thm_C16_FirstTickAfterSleep ==
    /\ task = "created" /\ ~slept
    /\ [][/\ Worked(last'.events) => (last'.op = "tick" /\ task = "sleeping" /\ slept')
          /\ ~slept' =>
                /\ ~Worked(last'.events)
                /\ sent' = <<>>
                /\ failure' = NoFailure
          /\ last'.op = "start" => (task' = "sleeping" /\ ~slept')
          /\ (task = "cancelled" /\ ~slept) => (task' = "cancelled" /\ ~slept')]_vars

\* stop() came before the first sleep of an engine with two frames queued
\* had completed:
\* the loop was cancelled without a tick and the frames are still queued
Wit_C16_StoppedInFirstSleep ==
    /\ last.op = "cancelled"
    /\ task = "cancelled"
    /\ ~slept
    /\ Len(queue) = 2
    /\ sent = <<>>

\* the peer's tick called callback name once, with args, and called no other
\* callback
CalledOnceWith(evs, name, args) ==
    /\ Count(evs, name) = 1
    /\ CallArgs(evs, name) = {args}
    /\ \A other \in Callbacks \ {name} : Count(evs, other) = 0

\* C17 - Codec round-trip, as stated: the frame send_command builds from a
\* command in 0..255 and any float32 throttle makes the peer call
\* on_command_payload with the same command and the same throttle bit
\* pattern, and the frame send_binary_payload builds from any payload makes
\* the peer call on_binary_payload with exactly that payload.
CEx_C17_RoundTripEveryPattern ==
    /\ last.op = "deliver_command" =>
          CalledOnceWith(last.events, "on_command_payload", last.args)
    /\ last.op = "deliver_binary" =>
          CalledOnceWith(last.events, "on_binary_payload", last.args)

\* C17, amended - the round trip is exact for every command in 0..255 with
\* every float32 throttle that is not a signalling NaN, and for every
\* payload; a signalling NaN throttle arrives as the quiet NaN of the same
\* sign and payload bits.
Thm_C17_RoundTripButSignallingNaN ==
    /\ last.op = "deliver_command" =>
          LET throttle == SubSeq(last.args, 2, 3) IN
          /\ last.exc = None
          /\ ~IsSignallingNaN(throttle) =>
                CalledOnceWith(last.events, "on_command_payload", last.args)
          /\ IsSignallingNaN(throttle) =>
                CalledOnceWith(last.events, "on_command_payload",
                               <<last.args[1], throttle[1] + 64, throttle[2]>>)
    /\ last.op = "deliver_binary" =>
          /\ last.exc = None
          /\ CalledOnceWith(last.events, "on_binary_payload", last.args)

\* command 255 with the signalling NaN 0xFF800001 as throttle went over the
\* link and the peer's on_command_payload got the quiet NaN 0xFFC00001
Wit_C17_SignallingNaNQuieted ==
    /\ last.op = "deliver_command"
    /\ last.args = <<255, 65408, 1>>
    /\ CallArgs(last.events, "on_command_payload") = {<<255, 65472, 1>>}

\* ------------------------------------------- an engine that is left to run
\* The engine is never stopped, its probe returns None, b"" or a frame that
\* decodes (a binary frame, an unknown magic) and never raises, _send_data
\* returns True or False and never raises, and the callbacks return or
\* enqueue a reply.
LiveFrames == {EncodeBinary(<<1, 2>>), <<0, 0>>}

LiveInit ==
    /\ Init
    /\ cls = "QueuedConnection"

LiveTick(res, out) ==
    /\ Tick(res, out)
    /\ ~Has(last'.events, "stop")
    /\ ~CallbackRaised(last'.events)

\* a tick whose probe returns a frame
LiveTickReceive == \E b \in LiveFrames : LiveTick(ProbeBytes(b), "True")

\* a tick whose probe returns None or b""
LiveTickSend ==
    \E res \in {ProbeNone, ProbeBytes(<<>>)}, out \in {"True", "False"} : LiveTick(res, out)

LiveNext ==
    \/ Start
    \/ LiveTickReceive
    \/ LiveTickSend
    \/ SendCommand
    \/ SendBinaryPayload

\* The event loop runs a task that is ready: the created task gets its first
\* step and a completed sleep resumes the loop; among the ticks there are
\* always again ticks whose probe reports nothing.
SpecLive == LiveInit /\ [][LiveNext]_vars /\ WF_vars(Start) /\ WF_vars(LiveTickSend)

\* C19 - Eventual transmission: on an engine that is never stopped, whose
\* probe and _send_data never raise, whose loop is scheduled fairly and whose
\* probe reports nothing again and again, every enqueued frame is eventually
\* handed to _send_data; and a tick whose probe reports data transmits no
\* queued frame.
CEx_C19_EventualTransmission ==
    /\ \A i \in 1..MaxEnq : (Len(info) >= i) ~> (i \in SentIds)
    /\ [][(last'.op = "tick" /\ ProbedData(last'.events)) => sent' = sent]_vars

====
